---------------------------- MODULE Spec2Model ----------------------------
(***************************************************************************)
(* A model of os-detect (src/src/lib.rs): the scoped mount session         *)
(* detect_os_from_device, the probe chain detect_os_from_path with its     *)
(* three detectors, the fstab parser find_linux_parts and the plist        *)
(* scanner parse_plist.                                                    *)
(*                                                                         *)
(* Text is modelled as a sequence of one-character strings, so that trim,  *)
(* split_whitespace, starts_with, split_at and the byte-range slices of    *)
(* the source are computed, not assumed.  All text of the model is ASCII:  *)
(* a byte index is a character index, and the only way a slice or a        *)
(* split_at can abort is by its bounds.                                    *)
(*                                                                         *)
(* Option<T> is a sequence of length at most one: None is <<>> and Some(v) *)
(* is <<v>>.  A panic is an outcome of its own, never a value.             *)
(***************************************************************************)
EXTENDS Integers, Sequences, FiniteSets, TLC

VARIABLES
    \* detect_os_from_device / detect_os_from_path
    pc, called, env, tempdir, mount, events, invoked, outs, result, unwinding,
    \* find_linux_parts
    fpc, fstab, ids, fidx, home, efi, recovery, fretries,
    \* parse_plist
    ppc, plist, pidx, flags, product_name, version, presult, pretries

devvars == <<pc, called, env, tempdir, mount, events, invoked, outs, result, unwinding>>
fsvars == <<fpc, fstab, ids, fidx, home, efi, recovery, fretries>>
plvars == <<ppc, plist, pidx, flags, product_name, version, presult, pretries>>
vars == <<devvars, fsvars, plvars>>

----------------------------------------------------------------------------
(* Option<T> *)

None == <<>>
Some(v) == <<v>>
is_some(o) == o # None
is_none(o) == o = None

(* One item of BufRead::lines(): Ok(line) or Err(_). *)
Ok(l) == [ok |-> TRUE, line |-> l]
ReadErr == [ok |-> FALSE, line |-> <<>>]

(* An item Err(_) of a reader that keeps failing: the read consumed nothing
   (the file is a directory, the device returns an I/O error), so the next
   call of lines().next() reads at the same place and fails again. *)
ReadFails == [ok |-> FALSE, line |-> <<>>, again |-> TRUE]

\* Where the reader stands after it yielded the item at place i.
next_place(item, i) == IF item = ReadFails THEN i ELSE i + 1

\* lines() never ends: one of its items is a read that keeps failing.
keeps_failing(items) == \E i \in 1..Len(items) : items[i] = ReadFails

----------------------------------------------------------------------------
(* str operations *)

is_whitespace(c) == c \in {" ", "\t"}

RECURSIVE trim_start(_)
trim_start(s) ==
    IF s = <<>> THEN s
    ELSE IF is_whitespace(Head(s)) THEN trim_start(Tail(s))
    ELSE s

RECURSIVE trim_end(_)
trim_end(s) ==
    IF s = <<>> THEN s
    ELSE IF is_whitespace(s[Len(s)]) THEN trim_end(SubSeq(s, 1, Len(s) - 1))
    ELSE s

trim(s) == trim_end(trim_start(s))

starts_with(s, p) == Len(s) >= Len(p) /\ SubSeq(s, 1, Len(p)) = p

\* The length of the first whitespace-free run of a text that starts with one.
RECURSIVE token_len(_)
token_len(s) ==
    IF s = <<>> \/ is_whitespace(Head(s)) THEN 0
    ELSE 1 + token_len(Tail(s))

RECURSIVE split_whitespace(_)
split_whitespace(s) ==
    LET t == trim_start(s)
        n == token_len(t)
    IN  IF t = <<>> THEN <<>>
        ELSE <<SubSeq(t, 1, n)>> \o split_whitespace(SubSeq(t, n + 1, Len(t)))

\* Iterator::next on the fields: the k-th field, if there is one.
field(fields, k) == IF Len(fields) >= k THEN Some(fields[k]) ELSE None

\* format!("{} ({})", name, version)
format_label(name, ver) == name \o <<" ", "(">> \o ver \o <<")">>

----------------------------------------------------------------------------
(* Text constants of the source *)

\* "<key>ProductUserVisibleVersion</key>"  (36 characters)
KEY_VERSION ==
    <<"<","k","e","y",">","P","r","o","d","u","c","t","U","s","e","r","V","i","s","i","b","l",
      "e","V","e","r","s","i","o","n","<","/","k","e","y",">">>

\* "<key>ProductName</key>"  (22 characters)
KEY_NAME ==
    <<"<","k","e","y",">","P","r","o","d","u","c","t","N","a","m","e","<","/","k","e","y",">">>

\* "Mac OS (Unknown)"
MAC_OS_UNKNOWN ==
    <<"M","a","c"," ","O","S"," ","(","U","n","k","n","o","w","n",")">>

\* "Windows"
WINDOWS ==
    <<"W","i","n","d","o","w","s">>

\* "UUID"
UUID ==
    <<"U","U","I","D">>

\* "/home"
T_HOME ==
    <<"/","h","o","m","e">>

\* "/boot/efi"
T_EFI ==
    <<"/","b","o","o","t","/","e","f","i">>

\* "/recovery"
T_RECOVERY ==
    <<"/","r","e","c","o","v","e","r","y">>

----------------------------------------------------------------------------
(* Text used as input *)

SP == <<" ">>

\* "/dev/sda1"
DEV_SDA1 ==
    <<"/","d","e","v","/","s","d","a","1">>

\* "/dev/sda2"
DEV_SDA2 ==
    <<"/","d","e","v","/","s","d","a","2">>

\* "abcd-1234"
ID_A ==
    <<"a","b","c","d","-","1","2","3","4">>

\* "9f"
ID_B ==
    <<"9","f">>

\* "=abcd-1234" and "UUID=abcd-1234"
UUID_EQ_A == UUID \o <<"=">> \o ID_A

\* "LABEL=x"
LABEL_X ==
    <<"L","A","B","E","L","=","x">>

\* "ext4"
EXT4 ==
    <<"e","x","t","4">>

\* The device paths of the inputs, and what the partition identity resolver
\* may return for one.
DevPaths == {DEV_SDA1, DEV_SDA2}
ResolverAnswers == {None, Some(ID_B)}

----------------------------------------------------------------------------
(* find_linux_parts: the fstab parser *)

\* PartitionID::get_uuid(path).map(|id| id.id): the external resolver, a
\* lookup that answers with an identifier or with nothing.
get_uuid(resolver, path) ==
    IF path \in DOMAIN resolver THEN resolver[path] ELSE None

\* str::split_at(mid): aborts when mid is beyond the end of the text.
split_at_panics(s, mid) == mid > Len(s)

\* The closure parse_fstab_mount.  panic: split_at aborted.
parse_fstab_mount(m, resolver) ==
    IF starts_with(m, <<"/">>) THEN
        [panic |-> FALSE, val |-> get_uuid(resolver, m)]
    ELSE IF starts_with(m, UUID) THEN
        IF split_at_panics(m, 5) THEN [panic |-> TRUE, val |-> None]
        ELSE [panic |-> FALSE, val |-> Some(SubSeq(m, 6, Len(m)))]
    ELSE [panic |-> FALSE, val |-> None]

\* `if let Some(path) = parse_fstab_mount(source.unwrap()) { part = Some(path) }`
\* for the part named f.  Option::unwrap aborts on None.
set_part(parts, f, source, resolver) ==
    IF is_none(source) THEN [parts EXCEPT !.panicked = TRUE]
    ELSE LET r == parse_fstab_mount(source[1], resolver)
         IN  IF r.panic THEN [parts EXCEPT !.panicked = TRUE]
             ELSE IF is_some(r.val) THEN [parts EXCEPT ![f] = r.val]
             ELSE parts

\* takes_branch without `target == t`: a line for any target is taken.
takes_branch_any_target(part, target, t) == is_none(part)

\* takes_branch without `part.is_none()`: every line for the target is taken.
takes_branch_unguarded(part, target, t) == target = t

\* Whether the branch for target t is taken: `part.is_none() && target == t`.
takes_branch(part, target, t) == is_none(part) /\ target = t

\* The body of the loop over the lines of etc/fstab, for one item of lines().
fstab_entry(parts, item, resolver) ==
    IF ~item.ok THEN parts
    ELSE LET e == trim(item.line)
             fields == split_whitespace(e)
             source == field(fields, 1)
             target == field(fields, 2)
         IN  IF starts_with(e, <<"#">>) THEN parts
             ELSE IF is_none(target) THEN parts
             ELSE IF takes_branch(parts.home, target[1], T_HOME) THEN
                 set_part(parts, "home", source, resolver)
             ELSE IF takes_branch(parts.efi, target[1], T_EFI) THEN
                 set_part(parts, "efi", source, resolver)
             ELSE IF takes_branch(parts.recovery, target[1], T_RECOVERY) THEN
                 set_part(parts, "recovery", source, resolver)
             ELSE parts

NoParts == [home |-> None, efi |-> None, recovery |-> None, panicked |-> FALSE]

RECURSIVE fstab_loop(_, _, _)
fstab_loop(parts, items, resolver) ==
    IF items = <<>> \/ parts.panicked THEN parts
    ELSE IF next_place(Head(items), 1) = 1 THEN parts
    ELSE fstab_loop(fstab_entry(parts, Head(items), resolver), Tail(items), resolver)

\* find_linux_parts(base), for the etc/fstab under base: file.opens is whether
\* open() succeeds, file.items what lines() yields.  ret is the tuple returned,
\* `(home, efi, recovery)`, unless the call panicked or hangs: the loop never
\* ends when it comes to a read that keeps failing.
find_linux_parts(file, resolver) ==
    LET parts == IF file.opens THEN fstab_loop(NoParts, file.items, resolver)
                 ELSE NoParts
    IN  [panicked |-> parts.panicked,
         hangs |-> file.opens /\ ~parts.panicked /\ keeps_failing(file.items),
         ret |-> <<parts.home, parts.efi, parts.recovery>>]

----------------------------------------------------------------------------
(* The fstab inputs *)

MaxFstabLines == 3

\* "/dev/sda1 /home ext4"
F_DEV_HOME == DEV_SDA1 \o SP \o T_HOME \o SP \o EXT4
\* "UUID=abcd-1234 /home"
F_UUID_HOME == UUID_EQ_A \o SP \o T_HOME
\* "UUID /home"
F_BARE_UUID_HOME == UUID \o SP \o T_HOME
\* "LABEL=x /home"
F_LABEL_HOME == LABEL_X \o SP \o T_HOME
\* "# /dev/sda1 /home ext4 defaults 0 2"
F_COMMENT ==
    <<"#">> \o SP \o F_DEV_HOME \o SP
        \o <<"d","e","f","a","u","l","t","s"," ","0"," ","2">>
\* "/dev/sda2 /boot/efi"
F_DEV_EFI == DEV_SDA2 \o SP \o T_EFI
\* "  UUID=abcd-1234 \t/recovery "
F_UUID_RECOVERY == SP \o SP \o UUID_EQ_A \o SP \o <<"\t">> \o T_RECOVERY \o SP
\* "/home"
F_ONE_FIELD == T_HOME
\* "UUID= /boot/efi"
F_EMPTY_UUID_EFI == UUID \o <<"=">> \o SP \o T_EFI

\* "/dev/sda1 / ext4"
F_DEV_ROOT == DEV_SDA1 \o SP \o <<"/">> \o SP \o EXT4
\* " #UUID=abcd-1234 /home"
F_INDENTED_COMMENT == SP \o <<"#">> \o F_UUID_HOME

FstabItems ==
    { Ok(F_DEV_HOME), Ok(F_UUID_HOME), Ok(F_BARE_UUID_HOME), Ok(F_LABEL_HOME),
      Ok(F_COMMENT), Ok(F_DEV_EFI), Ok(F_UUID_RECOVERY), Ok(F_ONE_FIELD),
      Ok(F_EMPTY_UUID_EFI), Ok(F_DEV_ROOT), Ok(F_INDENTED_COMMENT), ReadErr }

SeqsUpTo(S, n) == UNION { [1..k -> S] : k \in 0..n }

\* etc/fstab is a directory, or its reads fail after one line.
FailingFstabs ==
    { [opens |-> TRUE, items |-> s \o <<ReadFails>>] : s \in SeqsUpTo(FstabItems, 1) }

FstabFiles ==
    { [opens |-> FALSE, items |-> <<>>] }
        \cup { [opens |-> TRUE, items |-> s] : s \in SeqsUpTo(FstabItems, MaxFstabLines) }
        \cup FailingFstabs

\* How many times the model follows a retried read.
MaxRetries == 2

Resolvers == [DevPaths -> ResolverAnswers]

----------------------------------------------------------------------------
(* The variables a specification does not use stay as they are here. *)

IdleDev ==
    /\ pc = "idle" /\ called = "none" /\ env = <<>> /\ tempdir = "none"
    /\ mount = "none" /\ events = <<>> /\ invoked = <<>> /\ outs = <<>>
    /\ result = None /\ unwinding = FALSE

IdleFstab ==
    /\ fpc = "idle" /\ fstab = [opens |-> FALSE, items |-> <<>>]
    /\ ids = <<>> /\ fidx = 1
    /\ home = None /\ efi = None /\ recovery = None /\ fretries = 0

IdlePlist ==
    /\ ppc = "idle" /\ plist = <<>> /\ pidx = 1 /\ flags = 0
    /\ product_name = None /\ version = None /\ presult = None
    /\ pretries = 0

----------------------------------------------------------------------------
(* SpecFstab: find_linux_parts run line by line on every fstab input *)

InitFstab ==
    /\ fpc = "open"
    /\ fstab \in FstabFiles
    /\ ids \in Resolvers
    /\ fidx = 1
    /\ home = None /\ efi = None /\ recovery = None
    /\ fretries = 0
    /\ IdleDev /\ IdlePlist

\* `if let Ok(fstab) = open(base.join("etc/fstab"))`
OpenFstab ==
    /\ fpc = "open"
    /\ fpc' = IF fstab.opens THEN "loop" ELSE "done"
    /\ UNCHANGED <<fstab, ids, fidx, home, efi, recovery, fretries, devvars, plvars>>

\* One iteration of `for entry in BufReader::new(fstab).lines()`.  fretries
\* counts the reads made again at the place of a read that failed.
FstabEntry ==
    /\ fpc = "loop"
    /\ fidx <= Len(fstab.items)
    /\ fretries < MaxRetries
    /\ LET before == [home |-> home, efi |-> efi, recovery |-> recovery,
                      panicked |-> FALSE]
           after == fstab_entry(before, fstab.items[fidx], ids)
       IN  /\ home' = after.home
           /\ efi' = after.efi
           /\ recovery' = after.recovery
           /\ fpc' = IF after.panicked THEN "panicked" ELSE "loop"
           /\ fidx' = IF after.panicked THEN fidx
                    ELSE next_place(fstab.items[fidx], fidx)
           /\ fretries' = IF next_place(fstab.items[fidx], fidx) = fidx
                        THEN fretries + 1 ELSE 0
    /\ UNCHANGED <<fstab, ids, devvars, plvars>>

\* lines() is exhausted: `(home, efi, recovery)` is returned.
FstabReturn ==
    /\ fpc = "loop"
    /\ fidx > Len(fstab.items)
    /\ fpc' = "done"
    /\ UNCHANGED <<fstab, ids, fidx, home, efi, recovery, fretries, devvars, plvars>>

NextFstab == OpenFstab \/ FstabEntry \/ FstabReturn

SpecFstab == InitFstab /\ [][NextFstab]_vars

----------------------------------------------------------------------------
(* Properties of find_linux_parts, under SpecFstab *)

\* What the parser reads off item i of the file: its target and source
\* fields, when the line is read, is no comment and has them.
LineTarget(i) ==
    LET item == fstab.items[i]
        e == trim(item.line)
    IN  IF ~item.ok \/ starts_with(e, <<"#">>) THEN None
        ELSE field(split_whitespace(e), 2)

LineSource(i) ==
    LET item == fstab.items[i]
        e == trim(item.line)
    IN  IF ~item.ok \/ starts_with(e, <<"#">>) THEN None
        ELSE field(split_whitespace(e), 1)

LinesFor(t) == { i \in 1..Len(fstab.items) : LineTarget(i) = Some(t) }

\* What the source of line i resolves to (None also when resolving aborts).
Resolved(i) == parse_fstab_mount(LineSource(i)[1], ids).val

ResolvedLinesFor(t) == { i \in LinesFor(t) : is_some(Resolved(i)) }

First(S) == CHOOSE i \in S : \A j \in S : i <= j

Range(s) == { s[i] : i \in 1..Len(s) }

Targets == <<T_HOME, T_EFI, T_RECOVERY>>
Returned == <<home, efi, recovery>>

C7_ParserNeverAborts ==
    /\ fpc # "panicked"
    /\ \A i \in 1..Len(fstab.items) : is_some(LineTarget(i)) => is_some(LineSource(i))

----------------------------------------------------------------------------
(* parse_plist: the plist scanner *)

\* entry[a..b]: aborts when the range is reversed or ends beyond the text.
slice_panics(s, a, b) == a > b \/ b > Len(s)
\* slice with the end of the range taken as inclusive, entry[a..=b].
slice_inclusive(s, a, b) == SubSeq(s, a + 1, b + 1)

slice(s, a, b) == SubSeq(s, a + 1, b)

\* too_short with the guard one too low, `entry.len() < 9`.
too_short_below_9(e) == Len(e) < 9

\* The guard of the awaiting arms, `entry.len() < 10`.
too_short(e) == Len(e) < 10

\* An awaiting arm, for the trimmed line e:
\* `if entry.len() < 10 { return None; } Some(entry[8..entry.len() - 9].into())`
take_value(e) ==
    IF too_short(e) THEN [out |-> "return_none", val |-> None]
    ELSE IF slice_panics(e, 8, Len(e) - 9) THEN [out |-> "panic", val |-> None]
    ELSE [out |-> "next", val |-> Some(slice(e, 8, Len(e) - 9))]

\* match_flags with the awaiting arms not going back to `flags = 0`.
match_flags_stays_awaiting(st, e) ==
    IF st.flags = 0 THEN
        IF e = KEY_VERSION THEN [st EXCEPT !.flags = 1]
        ELSE IF e = KEY_NAME THEN [st EXCEPT !.flags = 2]
        ELSE st
    ELSE
        LET v == take_value(e)
        IN  IF v.out # "next" THEN [st EXCEPT !.out = v.out]
            ELSE IF st.flags = 1 THEN [st EXCEPT !.version = v.val]
            ELSE [st EXCEPT !.product_name = v.val]

\* `match flags { ... }` for the trimmed line e.  st.out is what the loop does
\* next: "next" line, "return_none", "panic".
match_flags(st, e) ==
    IF st.flags = 0 THEN
        IF e = KEY_VERSION THEN [st EXCEPT !.flags = 1]
        ELSE IF e = KEY_NAME THEN [st EXCEPT !.flags = 2]
        ELSE st
    ELSE IF st.flags = 1 THEN
        LET v == take_value(e)
        IN  IF v.out = "next" THEN [st EXCEPT !.version = v.val, !.flags = 0]
            ELSE [st EXCEPT !.out = v.out]
    ELSE IF st.flags = 2 THEN
        LET v == take_value(e)
        IN  IF v.out = "next" THEN [st EXCEPT !.product_name = v.val, !.flags = 0]
            ELSE [st EXCEPT !.out = v.out]
    ELSE [st EXCEPT !.out = "panic"]

\* The loop without its `break`.
never_captured(st) == FALSE

\* `if product_name.is_some() && version.is_some() { break; }`
both_captured(st) == is_some(st.product_name) /\ is_some(st.version)

\* The body of the loop, for one line that lines().flat_map(|line| line) yields.
plist_entry(st, line) ==
    LET after == match_flags(st, trim(line))
    IN  IF after.out = "next" /\ both_captured(after) THEN [after EXCEPT !.out = "break"]
        ELSE after

\* The end of parse_plist: the label, if both fields were captured.
plist_label(name, ver) ==
    IF is_some(name) /\ is_some(ver) THEN Some(format_label(name[1], ver[1]))
    ELSE None

PlistStart == [flags |-> 0, product_name |-> None, version |-> None, out |-> "next"]

RECURSIVE plist_loop(_, _)
plist_loop(st, items) ==
    IF items = <<>> \/ st.out # "next" THEN st
    ELSE IF next_place(Head(items), 1) = 1 THEN st
    ELSE IF ~Head(items).ok THEN plist_loop(st, Tail(items))
    ELSE plist_loop(plist_entry(st, Head(items).line), Tail(items))

\* parse_plist(file) for what lines() yields: panic, or hangs (the loop
\* never ends when it comes to a read that keeps failing), or the optional
\* label.
parse_plist(items) ==
    LET st == plist_loop(PlistStart, items)
    IN  IF st.out = "panic" THEN [panic |-> TRUE, hangs |-> FALSE, val |-> None]
        ELSE IF st.out = "return_none" THEN [panic |-> FALSE, hangs |-> FALSE, val |-> None]
        ELSE IF st.out = "next" /\ keeps_failing(items)
             THEN [panic |-> FALSE, hangs |-> TRUE, val |-> None]
        ELSE [panic |-> FALSE, hangs |-> FALSE,
              val |-> plist_label(st.product_name, st.version)]

----------------------------------------------------------------------------
(* The plist inputs *)

MaxPlistLines == 4

IND == <<" ", " ", " ", " ">>

\* `<string>`  (8 characters)
STR_OPEN ==
    <<"<","s","t","r","i","n","g",">">>

\* `</string>`  (9 characters)
STR_CLOSE ==
    <<"<","/","s","t","r","i","n","g",">">>

\* `Mac OS X`  (8 characters)
MAC_OS_X ==
    <<"M","a","c"," ","O","S"," ","X">>

\* `10.6.2`  (6 characters)
V10_6_2 ==
    <<"1","0",".","6",".","2">>

\* `<integer>`  (9 characters)
P_LEN9 ==
    <<"<","i","n","t","e","g","e","r",">">>

\* `<integer/>`  (10 characters)
P_LEN10 ==
    <<"<","i","n","t","e","g","e","r","/",">">>

\* `<real>1.5</real>`  (16 characters)
P_LEN16 ==
    <<"<","r","e","a","l",">","1",".","5","<","/","r","e","a","l",">">>

\* `<?xml version="1.0" encoding="UTF-8"?>`  (38 characters)
M01 ==
    <<"<","?","x","m","l"," ","v","e","r","s","i","o","n","=","\"","1",".","0","\""," ","e",
      "n","c","o","d","i","n","g","=","\"","U","T","F","-","8","\"","?",">">>

\* `<!DOCTYPE plist PUBLIC "Apple Stuff">`  (37 characters)
M02 ==
    <<"<","!","D","O","C","T","Y","P","E"," ","p","l","i","s","t"," ","P","U","B","L","I","C",
      " ","\"","A","p","p","l","e"," ","S","t","u","f","f","\"",">">>

\* `<plist version="1.0">`  (21 characters)
M03 ==
    <<"<","p","l","i","s","t"," ","v","e","r","s","i","o","n","=","\"","1",".","0","\"",">">>

\* `<dict>`  (6 characters)
M04 ==
    <<"<","d","i","c","t",">">>

\* `</dict>`  (7 characters)
M13 ==
    <<"<","/","d","i","c","t",">">>

\* `</plist>`  (8 characters)
M14 ==
    <<"<","/","p","l","i","s","t",">">>

\* "10C540"
BUILD_10C540 ==
    <<"1","0","C","5","4","0">>

\* "<key>ProductBuildVersion</key>"
KEY_BUILD ==
    <<"<","k","e","y",">","P","r","o","d","u","c","t","B","u","i","l","d","V","e","r","s","i",
      "o","n","<","/","k","e","y",">">>

\* "<key>ProductVersion</key>"
KEY_PRODUCT_VERSION ==
    <<"<","k","e","y",">","P","r","o","d","u","c","t","V","e","r","s","i","o","n","<","/","k",
      "e","y",">">>

\* "<string>v</string>": a correctly wrapped value line.
wrapped(v) == STR_OPEN \o v \o STR_CLOSE

\* MAC_PLIST of the tests, line by line.
MAC_PLIST ==
    << Ok(M01), Ok(M02), Ok(M03), Ok(M04),
       Ok(IND \o KEY_BUILD), Ok(IND \o wrapped(BUILD_10C540)),
       Ok(IND \o KEY_NAME), Ok(IND \o wrapped(MAC_OS_X)),
       Ok(IND \o KEY_VERSION), Ok(IND \o wrapped(V10_6_2)),
       Ok(IND \o KEY_PRODUCT_VERSION), Ok(IND \o wrapped(V10_6_2)),
       Ok(M13), Ok(M14) >>

\* "Mac OS X (10.6.2)"
MAC_OS_X_10_6_2 ==
    <<"M","a","c"," ","O","S"," ","X"," ","(","1","0",".","6",".","2",")">>

PlistItems ==
    { Ok(IND \o KEY_VERSION), Ok(IND \o KEY_NAME),
      Ok(IND \o wrapped(MAC_OS_X)), Ok(wrapped(V10_6_2) \o SP), Ok(wrapped(<<>>)),
      Ok(P_LEN9), Ok(P_LEN10), Ok(P_LEN16), ReadErr }

\* MAC_PLIST followed by a name key and a 9-character line.
MAC_PLIST_TRAILING == MAC_PLIST \o << Ok(IND \o KEY_NAME), Ok(P_LEN9) >>

\* The file is a directory, or its reads fail after one line.
FailingPlists == { s \o <<ReadFails>> : s \in SeqsUpTo(PlistItems, 1) }

PlistFiles ==
    SeqsUpTo(PlistItems, MaxPlistLines) \cup {MAC_PLIST, MAC_PLIST_TRAILING}
        \cup FailingPlists

----------------------------------------------------------------------------
(* SpecPlist: parse_plist run line by line on every plist input *)

InitPlist ==
    /\ ppc = "loop"
    /\ plist \in PlistFiles
    /\ pidx = 1
    /\ flags = 0
    /\ product_name = None /\ version = None
    /\ presult = None
    /\ pretries = 0
    /\ IdleDev /\ IdleFstab

\* One iteration of `for entry in file.lines().flat_map(|line| line)`: an Err
\* item yields no entry; an Ok item runs the body.  On `return None` and on a
\* panic pidx stays at the line that caused it.  pretries counts the reads
\* made again at the place of a read that failed.
PlistEntry ==
    /\ ppc = "loop"
    /\ pidx <= Len(plist)
    /\ pretries < MaxRetries
    /\ LET item == plist[pidx]
           before == [flags |-> flags, product_name |-> product_name,
                      version |-> version, out |-> "next"]
           after == IF item.ok THEN plist_entry(before, item.line) ELSE before
       IN  /\ flags' = after.flags
           /\ product_name' = after.product_name
           /\ version' = after.version
           /\ ppc' = CASE after.out = "next" -> "loop"
                       [] after.out = "break" -> "after_loop"
                       [] after.out = "return_none" -> "done"
                       [] after.out = "panic" -> "panicked"
           /\ pidx' = IF after.out \in {"next", "break"} THEN next_place(item, pidx)
                    ELSE pidx
           /\ pretries' = IF next_place(item, pidx) = pidx THEN pretries + 1 ELSE 0
    /\ UNCHANGED <<plist, presult, devvars, fsvars>>

\* lines() is exhausted.
PlistExhausted ==
    /\ ppc = "loop"
    /\ pidx > Len(plist)
    /\ ppc' = "after_loop"
    /\ UNCHANGED <<plist, pidx, flags, product_name, version, presult, pretries,
                   devvars, fsvars>>

\* `if let (Some(name), Some(version)) = (product_name, version)`
PlistReturn ==
    /\ ppc = "after_loop"
    /\ presult' = plist_label(product_name, version)
    /\ ppc' = "done"
    /\ UNCHANGED <<plist, pidx, flags, product_name, version, pretries, devvars, fsvars>>

NextPlist == PlistEntry \/ PlistExhausted \/ PlistReturn

SpecPlist == InitPlist /\ [][NextPlist]_vars

----------------------------------------------------------------------------
(* Properties of parse_plist, under SpecPlist *)

\* Line i of the input, trimmed (an Err item has none: the empty text).
Trimmed(i) == trim(plist[i].line)

IsKeyMarker(i) == plist[i].ok /\ Trimmed(i) \in {KEY_VERSION, KEY_NAME}
IsNameMarker(i) == plist[i].ok /\ Trimmed(i) = KEY_NAME
IsVersionMarker(i) == plist[i].ok /\ Trimmed(i) = KEY_VERSION

ends_with(s, p) == Len(s) >= Len(p) /\ SubSeq(s, Len(s) - Len(p) + 1, Len(s)) = p

\* A correctly wrapped value line: <string>...</string>.
IsWrapped(e) == starts_with(e, STR_OPEN) /\ ends_with(e, STR_CLOSE) /\ Len(e) >= 10

\* Characters [8, len-9) of trimmed line i, counted from 0.
Extract(i) == SubSeq(Trimmed(i), 9, Len(Trimmed(i)) - 9)

\* The scanner is about to read a line in an awaiting state.
AtValueLine ==
    /\ ppc = "loop" /\ flags \in {1, 2}
    /\ pidx <= Len(plist) /\ plist[pidx].ok

\* The field an awaiting state captures into, after the step.
CapturedNext == IF flags = 1 THEN version' ELSE product_name'

\* C6 as stated: whenever a line is reached in an awaiting state, a line
\* shorter than 10 characters makes the scan return none, and every line of
\* 10 or more characters has ordered slice bounds (8 <= len-9) and yields
\* characters [8, len-9) without the scanner aborting.
C6_GuardSufficient ==
    [][AtValueLine =>
         IF Len(Trimmed(pidx)) < 10
         THEN ppc' = "done" /\ presult' = None
         ELSE /\ 8 <= Len(Trimmed(pidx)) - 9
              /\ ppc' # "panicked"
              /\ CapturedNext = Some(Extract(pidx))]_vars

\* Both key markers occur, and every key-marker line is immediately followed
\* by a correctly wrapped value line.
WellFormedPlist ==
    /\ \E i \in 1..Len(plist) : IsNameMarker(i)
    /\ \E i \in 1..Len(plist) : IsVersionMarker(i)
    /\ \A i \in 1..Len(plist) :
         IsKeyMarker(i) =>
            /\ i < Len(plist)
            /\ plist[i + 1].ok
            /\ IsWrapped(Trimmed(i + 1))

----------------------------------------------------------------------------
(* The detectors and the probe chain *)

\* The file at etc/os-release under the root, root.osrel:
\*   "absent"      nothing is there;
\*   "unreadable"  it exists and cannot be opened;
\*   "unparsed"    it opens, and OsRelease::new_from returns Err;
\*   "release"     it opens, and OsRelease::new_from returns Ok.
\* root.plist is what lines() yields when it is opened.
osrel_exists(root) == root.osrel # "absent"
osrel_opens(root) == root.osrel \in {"unparsed", "release"}
osrel_parses(root) == root.osrel = "release"

\* The values of OS.  OsRelease is the external reader's value, kept opaque.
Linux(info, h, e, r) ==
    [variant |-> "Linux", info |-> info, efi |-> e, home |-> h, recovery |-> r]
Windows(label) == [variant |-> "Windows", label |-> label]
MacOs(label) == [variant |-> "MacOs", label |-> label]

\* What a call does: it panics, or it never returns, or it returns
\* val: Option<OS>.
Returns(v) == [panic |-> FALSE, hangs |-> FALSE, val |-> v]
Panics == [panic |-> TRUE, hangs |-> FALSE, val |-> None]
Hangs == [panic |-> FALSE, hangs |-> TRUE, val |-> None]

detect_linux(root) ==
    IF osrel_exists(root) /\ osrel_parses(root) THEN
        LET parts == find_linux_parts(root.fstab, root.resolver)
            h == parts.ret[1]
            e == parts.ret[2]
            r == parts.ret[3]
        IN  IF parts.panicked THEN Panics
            ELSE IF parts.hangs THEN Hangs
            ELSE Returns(Some(Linux("os_release", h, e, r)))
    ELSE Returns(None)

detect_macos(root) ==
    IF osrel_opens(root) THEN
        LET label == parse_plist(root.plist)
        IN  IF label.panic THEN Panics
            ELSE IF label.hangs THEN Hangs
            ELSE IF is_some(label.val) THEN Returns(Some(MacOs(label.val[1])))
            ELSE Returns(Some(MacOs(MAC_OS_UNKNOWN)))
    ELSE Returns(None)

\* detect_windows with the test of exists() negated.
detect_windows_negated(root) ==
    IF ~root.ntoskrnl THEN Returns(Some(Windows(WINDOWS))) ELSE Returns(None)

detect_windows(root) ==
    IF root.ntoskrnl THEN Returns(Some(Windows(WINDOWS))) ELSE Returns(None)

run_detector(d, root) ==
    CASE d = "linux" -> detect_linux(root)
      [] d = "windows" -> detect_windows(root)
      [] d = "macos" -> detect_macos(root)

\* The chain with Windows and macOS exchanged.
or_else_macos_first(d) ==
    CASE d = "linux" -> "macos"
      [] d = "macos" -> "windows"
      [] d = "windows" -> "none"

\* detect_os_from_path: the detector that `.or_else` runs when d returned None.
or_else(d) ==
    CASE d = "linux" -> "windows"
      [] d = "windows" -> "macos"
      [] d = "macos" -> "none"

----------------------------------------------------------------------------
(* The scoped mount session *)

\* Mount::new(..).ok().and_then(..) run whether or not the mount succeeded.
after_mount_unchecked(ok) == "linux"

\* `Mount::new(..).ok().and_then(|_mount| detect_os_from_path(base))`: where
\* control goes after the mount attempt.
after_mount(ok) == IF ok THEN "linux" ELSE "drop_tempdir"

\* `TempDir::new("distinst").ok().and_then(|tempdir| ..)`
after_tempdir(ok) == IF ok THEN "mount" ELSE "returned"

\* The mount kept as a plain Mount, which does not unmount when dropped.
drop_plain_mount(m) == m

\* Drop of the UnmountDrop guard `_mount`: unmount(UnmountFlags::DETACH).
drop_unmount(m) == "detached"

\* Drop of `tempdir`: the directory is removed.
drop_tempdir(t) == "removed"

\* Where control goes when the probe chain has ended.
after_probe(c, panicked) ==
    IF c = "device" THEN "drop_mount"
    ELSE IF panicked THEN "panicked" ELSE "returned"

\* A detector that never returns keeps the call where it is, "hung": nothing
\* of the call is dropped.
after_detector(c, o) == IF o.hangs THEN "hung" ELSE after_probe(c, o.panic)

----------------------------------------------------------------------------
(* The roots and environments *)

\* "UUID=abcd-1234 /home" alone; the three targets; a bare UUID source; a
\* directory at etc/fstab.
RootFstabs ==
    { [opens |-> FALSE, items |-> <<>>],
      [opens |-> TRUE, items |-> <<>>],
      [opens |-> TRUE, items |-> <<Ok(F_UUID_HOME)>>],
      [opens |-> TRUE, items |-> <<Ok(F_DEV_HOME), Ok(F_DEV_EFI), Ok(F_UUID_RECOVERY)>>],
      [opens |-> TRUE, items |-> <<Ok(F_BARE_UUID_HOME)>>],
      [opens |-> TRUE, items |-> <<ReadFails>>] }

\* MAC_PLIST; no line; a name key and a 9-character line; a name key and a
\* 10-character line; reads that fail.
RootPlists ==
    { MAC_PLIST, <<>>, <<Ok(KEY_NAME), Ok(P_LEN9)>>, <<Ok(KEY_NAME), Ok(P_LEN10)>>,
      <<ReadFails>> }

RootResolver == [p \in DevPaths |-> IF p = DEV_SDA1 THEN Some(ID_B) ELSE None]

Envs ==
    [ tmp_ok : BOOLEAN, mount_ok : BOOLEAN,
      osrel : {"absent", "unreadable", "unparsed", "release"},
      plist : RootPlists, ntoskrnl : BOOLEAN,
      fstab : RootFstabs, resolver : {RootResolver} ]

----------------------------------------------------------------------------
(* Spec: detect_os_from_device, and detect_os_from_path called directly *)

Init ==
    /\ called \in {"device", "path"}
    /\ env \in Envs
    /\ called = "path" => (env.tmp_ok /\ env.mount_ok)
    /\ pc = IF called = "device" THEN "start" ELSE "linux"
    /\ tempdir = "none" /\ mount = "none"
    /\ events = <<>> /\ invoked = <<>> /\ outs = <<>>
    /\ result = None /\ unwinding = FALSE
    /\ IdleFstab /\ IdlePlist

\* TempDir::new("distinst")
CreateTempDir ==
    /\ pc = "start"
    /\ pc' = after_tempdir(env.tmp_ok)
    /\ tempdir' = IF env.tmp_ok THEN "exists" ELSE tempdir
    /\ events' = Append(events, IF env.tmp_ok THEN "create_dir" ELSE "create_dir_failed")
    /\ UNCHANGED <<called, env, mount, invoked, outs, result, unwinding, fsvars, plvars>>

\* Mount::new(device, base, fs, MountFlags::empty(), None)
MountDevice ==
    /\ pc = "mount"
    /\ pc' = after_mount(env.mount_ok)
    /\ mount' = IF env.mount_ok THEN "attached" ELSE mount
    /\ events' = Append(events, IF env.mount_ok THEN "mount" ELSE "mount_failed")
    /\ UNCHANGED <<called, env, tempdir, invoked, outs, result, unwinding, fsvars, plvars>>

\* One detector of detect_os_from_path is called, and `.or_else` goes on to
\* the next one if it returned None.  The first one opens the probe.
Detect(d) ==
    /\ pc = d
    /\ LET o == run_detector(d, env)
           ended == o.panic \/ o.hangs \/ is_some(o.val) \/ or_else(d) = "none"
       IN  /\ invoked' = Append(invoked, d)
           /\ outs' = Append(outs, o)
           /\ events' = IF invoked = <<>> THEN Append(events, "probe") ELSE events
           /\ unwinding' = o.panic
           /\ result' = o.val
           /\ pc' = IF ended THEN after_detector(called, o) ELSE or_else(d)
    /\ UNCHANGED <<called, env, tempdir, mount, fsvars, plvars>>

DetectLinux == Detect("linux")
DetectWindows == Detect("windows")
DetectMacos == Detect("macos")

\* `_mount` goes out of scope, on return and on unwinding alike.
DropMount ==
    /\ pc = "drop_mount"
    /\ mount' = drop_unmount(mount)
    /\ events' = Append(events, "unmount")
    /\ pc' = "drop_tempdir"
    /\ UNCHANGED <<called, env, tempdir, invoked, outs, result, unwinding, fsvars, plvars>>

\* `tempdir` goes out of scope; detect_os_from_device returns, or the panic
\* goes on to the caller.
DropTempDir ==
    /\ pc = "drop_tempdir"
    /\ tempdir' = drop_tempdir(tempdir)
    /\ events' = Append(events, "remove_dir")
    /\ pc' = IF unwinding THEN "panicked" ELSE "returned"
    /\ UNCHANGED <<called, env, mount, invoked, outs, result, unwinding, fsvars, plvars>>

Next ==
    \/ CreateTempDir \/ MountDevice
    \/ DetectLinux \/ DetectWindows \/ DetectMacos
    \/ DropMount \/ DropTempDir

Spec == Init /\ [][Next]_vars

----------------------------------------------------------------------------
(* Properties of the mount session and of the probe chain, under Spec *)

IsPrefix(s, t) == Len(s) <= Len(t) /\ s = SubSeq(t, 1, Len(s))

Probing == pc \in {"linux", "windows", "macos"}
Exited == pc \in {"returned", "panicked"}

\* The probe chain has ended without a panic.
ChainReturned ==
    /\ invoked # <<>> /\ ~Probing /\ ~unwinding /\ pc # "hung"

\* What each detector returns on the root, called on its own.
L == detect_linux(env)
W == detect_windows(env)
M == detect_macos(env)

\* The first non-empty result of Linux, Windows, macOS, in this order.
FirstResult ==
    IF is_some(L.val) THEN L.val
    ELSE IF is_some(W.val) THEN W.val
    ELSE M.val

\* C1: in a call of detect_os_from_device, on every exit path no mount of the
\* call is attached and no directory of the call exists when the call ends;
\* the events come in the order create directory, mount, probe, unmount,
\* remove directory; the probe runs only while the mount is attached, and
\* the directory is never removed while the mount is attached.
C1_ScopedMountSession ==
    called = "device" =>
        /\ Exited => (mount # "attached" /\ tempdir # "exists")
        /\ Probing => (mount = "attached" /\ tempdir = "exists")
        /\ "probe" \in Range(events) /\ ~("unmount" \in Range(events))
              => mount = "attached"
        /\ mount = "attached" => tempdir = "exists"
        /\ tempdir = "removed" => mount # "attached"
        /\ \/ IsPrefix(events, <<"create_dir", "mount", "probe", "unmount", "remove_dir">>)
           \/ IsPrefix(events, <<"create_dir", "mount_failed", "remove_dir">>)
           \/ IsPrefix(events, <<"create_dir_failed">>)

\* C1 witness: detect_os_from_device has returned an OS after all five
\* events, with the mount detached and the directory removed.
C1_Witness ==
    /\ called = "device" /\ pc = "returned" /\ is_some(result)
    /\ events = <<"create_dir", "mount", "probe", "unmount", "remove_dir">>
    /\ mount = "detached" /\ tempdir = "removed"

\* C2: detect_os_from_path calls the detectors in the order Linux, Windows,
\* macOS; no detector is called after one that produced a result (or
\* panicked); its result is detect_linux's when that is non-empty, otherwise
\* detect_windows's when that is non-empty, otherwise detect_macos's, and a
\* non-empty result is the variant of the last detector called.
C2_FirstNonEmptyInOrder ==
    /\ IsPrefix(invoked, <<"linux", "windows", "macos">>)
    /\ \A k \in 1..(Len(invoked) - 1) : outs[k] = Returns(None)
    /\ ChainReturned =>
         /\ result = FirstResult
         /\ result = outs[Len(outs)].val
         /\ invoked = IF is_some(L.val) THEN <<"linux">>
                      ELSE IF is_some(W.val) THEN <<"linux", "windows">>
                      ELSE <<"linux", "windows", "macos">>
         /\ is_some(result) =>
              result[1].variant =
                 CASE invoked[Len(invoked)] = "linux" -> "Linux"
                   [] invoked[Len(invoked)] = "windows" -> "Windows"
                   [] invoked[Len(invoked)] = "macos" -> "MacOs"

\* C2 witness: the chain has returned Windows without calling detect_macos,
\* on a root where detect_macos would have returned a result.
C2_Witness ==
    /\ ChainReturned
    /\ invoked = <<"linux", "windows">>
    /\ is_some(result) /\ result[1].variant = "Windows"
    /\ is_some(M.val)

\* The root of C3: ntoskrnl.exe is present and etc/os-release is absent.
WindowsOnlyRoot == env.ntoskrnl /\ env.osrel = "absent"

\* C3 as stated: on such a root detect_os_from_path returns the Windows
\* variant, and neither the Linux nor the macOS detector is consulted.
C3_WindowsWithoutLinuxOrMacos ==
    (ChainReturned /\ WindowsOnlyRoot) =>
        /\ result = Some(Windows(WINDOWS))
        /\ ~("linux" \in Range(invoked))
        /\ ~("macos" \in Range(invoked))

\* C3 amended: on such a root detect_os_from_path returns the Windows
\* variant; the Linux detector is consulted first and returns nothing, the
\* Windows detector produces the result, and the macOS detector is never
\* consulted.
C3_WindowsAfterLinuxOnly ==
    /\ WindowsOnlyRoot => ~("macos" \in Range(invoked))
    /\ (ChainReturned /\ WindowsOnlyRoot) =>
         /\ result = Some(Windows(WINDOWS))
         /\ invoked = <<"linux", "windows">>
         /\ outs = <<Returns(None), Returns(Some(Windows(WINDOWS)))>>

\* C3 witness: the chain has returned on a root with ntoskrnl.exe and no
\* etc/os-release.
C3_Witness ==
    /\ ChainReturned /\ WindowsOnlyRoot
    /\ result = Some(Windows(WINDOWS))

\* C4: detect_os_from_device returns none when the directory cannot be
\* created, when the mount fails and when no detector matches, and the probe
\* chain's result otherwise; the mount is attempted only if the directory was
\* created, and the chain is run only if the mount succeeded.
C4_NoneOrChainResult ==
    called = "device" =>
        /\ pc = "returned" =>
             result = IF env.tmp_ok /\ env.mount_ok THEN FirstResult ELSE None
        /\ ({"mount", "mount_failed"} \cap Range(events) # {})
              => (env.tmp_ok /\ events[1] = "create_dir")
        /\ (invoked # <<>> \/ "probe" \in Range(events))
              => (env.tmp_ok /\ env.mount_ok /\ SubSeq(events, 1, 2) = <<"create_dir", "mount">>)
        /\ ~env.tmp_ok => (tempdir = "none" /\ mount = "none")
        /\ ~env.mount_ok => mount = "none"

\* C4 witness: detect_os_from_device has returned none because the mount
\* failed, on a root where the probe chain would have found an OS.
C4_Witness ==
    /\ called = "device" /\ pc = "returned"
    /\ env.tmp_ok /\ ~env.mount_ok
    /\ result = None /\ is_some(FirstResult)
    /\ invoked = <<>>

\* C10 as stated: detect_linux returns a Linux variant if and only if
\* etc/os-release exists and the release reader parses it, whatever the
\* fstab parser does; when etc/fstab cannot be opened the three fields are
\* empty.
C10_LinuxIffReleaseParses ==
    \A k \in 1..Len(invoked) :
        invoked[k] = "linux" =>
            /\ (~outs[k].panic /\ is_some(outs[k].val) /\ outs[k].val[1].variant = "Linux")
                  <=> (osrel_exists(env) /\ osrel_parses(env))
            /\ (is_some(outs[k].val) /\ ~env.fstab.opens) =>
                  /\ outs[k].val[1].home = None
                  /\ outs[k].val[1].efi = None
                  /\ outs[k].val[1].recovery = None


----------------------------------------------------------------------------
(* Termination of the two loops *)

\* C17 as stated: both line scanners visit each line at most once: a line
\* whose read fails is not read again, so no read is made a second time at
\* the same place, in the fstab parser and in the markup scanner.
C17_NoReadRetried ==
    fretries = 0 /\ pretries = 0

----------------------------------------------------------------------------
(* detect_macos, under Spec *)

\* C11 as stated: detect_macos returns a result if and only if etc/os-release
\* under the root can be opened; the result is the MacOs variant, whose label
\* is the markup scanner's "{name} ({version})" when the scanner yields one
\* and "Mac OS (Unknown)" otherwise.
C11_MacosIffOpens ==
    \A k \in 1..Len(invoked) :
        invoked[k] = "macos" =>
            /\ (~outs[k].panic /\ ~outs[k].hangs /\ is_some(outs[k].val))
                  <=> osrel_opens(env)
            /\ is_some(outs[k].val) =>
                  /\ outs[k].val[1].variant = "MacOs"
                  /\ outs[k].val[1].label =
                        IF is_some(parse_plist(env.plist).val)
                        THEN parse_plist(env.plist).val[1]
                        ELSE MAC_OS_UNKNOWN

----------------------------------------------------------------------------
(* The end of the scan, under SpecPlist *)

BothCaptured == is_some(product_name) /\ is_some(version)

\* The lines the loop has taken from lines().
LinesRead == SubSeq(plist, 1, pidx - 1)

\* C12: the markup scanner leaves the loop as soon as both product name and
\* version are captured, and its result is then the label of the two
\* captured fields, the same as on the lines read so far alone, whatever
\* lines follow; when the input is exhausted with a field uncaptured, as
\* when it ends in an awaiting state, the result is none.
C12_StopsWhenBothCaptured ==
    /\ BothCaptured => ppc \in {"after_loop", "done"}
    /\ (ppc = "done" /\ BothCaptured) =>
         /\ presult = Some(format_label(product_name[1], version[1]))
         /\ presult = parse_plist(LinesRead).val
    /\ (ppc = "done" /\ pidx > Len(plist) /\ ~BothCaptured) => presult = None
    /\ (ppc = "done" /\ pidx > Len(plist) /\ flags # 0) => presult = None

\* C12 witness: the scan of MAC_PLIST followed by a name key and a
\* 9-character line has returned the label of MAC_PLIST without reading the
\* lines that follow the second captured value.
C12_Witness ==
    /\ plist = MAC_PLIST_TRAILING
    /\ ppc = "done" /\ presult = Some(MAC_OS_X_10_6_2)
    /\ pidx <= Len(MAC_PLIST)

----------------------------------------------------------------------------
(* The scan state, under SpecPlist *)

\* The scanner is about to read a line in the idle state.
AtIdleLine ==
    /\ ppc = "loop" /\ flags = 0
    /\ pidx <= Len(plist) /\ plist[pidx].ok

\* The scanner is about to take an item that is a failed read.
AtFailedRead ==
    /\ ppc = "loop"
    /\ pidx <= Len(plist) /\ ~plist[pidx].ok

\* The field an awaiting state does not capture into is left as it is.
OtherFieldKept ==
    IF flags = 1 THEN product_name' = product_name ELSE version' = version

\* In idle only a key marker changes the state, and no field changes.
IdleStep ==
    AtIdleLine =>
        /\ flags' = IF Trimmed(pidx) = KEY_VERSION THEN 1
                    ELSE IF Trimmed(pidx) = KEY_NAME THEN 2
                    ELSE 0
        /\ product_name' = product_name /\ version' = version
        /\ ppc' = "loop"

\* C13 as stated, for the steps on which the scanner does not abort: the
\* scan state is one of idle (0), awaiting-version (1), awaiting-name (2); in
\* idle only a key marker changes the state; a line read in an awaiting state
\* is consumed as the value whatever its content, and the state is idle
\* again after it.
C13_AwaitingLineIsValue ==
    [][ ppc' # "panicked" =>
          /\ flags' \in {0, 1, 2}
          /\ IdleStep
          /\ AtValueLine =>
               /\ flags' = 0
               /\ CapturedNext = Some(Extract(pidx))
               /\ OtherFieldKept ]_vars

\* C13 amended: the scan state is always one of idle, awaiting-version,
\* awaiting-name; in idle only a line that is a key marker after trimming
\* changes the state, and no line read in idle changes a field; an awaiting
\* state lasts one line: a line shorter than 10 characters ends the scan
\* with none, a line of 10 to 16 characters aborts it, and every longer line
\* is consumed as the value whatever its content, after which the state is
\* idle again; a failed read changes neither the state nor a field.
C13_ScanStateMachine ==
    [][ /\ flags \in {0, 1, 2} /\ flags' \in {0, 1, 2}
        /\ IdleStep
        /\ AtValueLine =>
             \/ /\ Len(Trimmed(pidx)) < 10
                /\ ppc' = "done" /\ presult' = None
                /\ flags' = flags
                /\ product_name' = product_name /\ version' = version
             \/ /\ Len(Trimmed(pidx)) \in 10..16
                /\ ppc' = "panicked"
             \/ /\ Len(Trimmed(pidx)) >= 17
                /\ ppc' \in {"loop", "after_loop"}
                /\ flags' = 0
                /\ CapturedNext = Some(Extract(pidx))
                /\ OtherFieldKept
        /\ AtFailedRead =>
             /\ flags' = flags
             /\ product_name' = product_name /\ version' = version
             /\ ppc' = "loop" ]_vars

\* C13 witness: a version key, then a name-key line read in the
\* awaiting-version state: it was consumed as the version, the state is idle
\* and no name is awaited.
C13_Witness ==
    /\ Len(plist) >= 2 /\ IsVersionMarker(1) /\ IsNameMarker(2)
    /\ ppc = "loop" /\ pidx = 3
    /\ flags = 0
    /\ version = Some(Extract(2)) /\ product_name = None

----------------------------------------------------------------------------
(* The lines of etc/fstab one by one, under SpecFstab *)

\* The parser is about to take line fidx.
AtLine == fpc = "loop" /\ fidx <= Len(fstab.items)

\* The parser is about to take a line for target k whose field is empty.
AtOpenLineFor(k) ==
    /\ AtLine
    /\ LineTarget(fidx) = Some(Targets[k])
    /\ is_none(Returned[k])

\* What C14 says a source yields.
StatedIdentifier(source) ==
    IF starts_with(source, <<"/">>) THEN get_uuid(ids, source)
    ELSE IF starts_with(source, UUID) THEN Some(SubSeq(source, 6, Len(source)))
    ELSE None

\* C14 as stated: when the parser resolves the source of a recognised line,
\* a source starting with / yields what the resolver returns for that path,
\* a source starting with UUID yields the text after its first 5 characters,
\* and any other source leaves the field empty; none of these is an error.
C14_SourceYieldsIdentifier ==
    [][ \A k \in 1..3 :
          AtOpenLineFor(k) =>
              /\ fpc' = "loop"
              /\ Returned'[k] = StatedIdentifier(LineSource(fidx)[1]) ]_vars

\* The trimmed text of line fidx, and its fields.
Entry == trim(fstab.items[fidx].line)
Fields == split_whitespace(Entry)

\* Line fidx was read, and is a comment, or has fewer than two fields, or has
\* a second field that is none of the three targets.
AtSkippedLine ==
    /\ AtLine /\ fstab.items[fidx].ok
    /\ \/ (Entry # <<>> /\ Head(Entry) = "#")
       \/ Len(Fields) < 2
       \/ Fields[2] \notin Range(Targets)

\* C15: processing an fstab line leaves home, efi and recovery unchanged,
\* and the parser goes on to the next line, when the trimmed line begins
\* with #, when it has fewer than two whitespace-separated fields, or when
\* its second field is not one of /home, /boot/efi, /recovery.
C15_SkippedLineChangesNothing ==
    [][ AtSkippedLine =>
          /\ home' = home /\ efi' = efi /\ recovery' = recovery
          /\ fpc' = "loop" /\ fidx' = fidx + 1 ]_vars

\* C15 witness: the comment "# /dev/sda1 /home ext4 defaults 0 2" was read
\* first, with a resolver that knows /dev/sda1, and home is still empty.
C15_Witness ==
    /\ fpc = "loop" /\ fidx = 2
    /\ fstab.items[1] = Ok(F_COMMENT)
    /\ is_some(get_uuid(ids, DEV_SDA1))
    /\ home = None /\ efi = None /\ recovery = None

\* C18: each of home, efi and recovery is set at most once: a field that
\* holds an identifier is never changed or cleared by a later line, and a
\* field changes only at a line whose target is the field's target and whose
\* source resolved to an identifier, to that identifier.
C18_SetAtMostOnce ==
    [][ \A k \in 1..3 :
          /\ is_some(Returned[k]) => Returned'[k] = Returned[k]
          /\ Returned'[k] # Returned[k] =>
               /\ AtLine
               /\ LineTarget(fidx) = Some(Targets[k])
               /\ is_some(Resolved(fidx))
               /\ Returned'[k] = Resolved(fidx) ]_vars

\* C18 witness: the parser has returned with home set by the first line,
\* on a file whose second line is for /home too and resolves to another
\* identifier.
C18_Witness ==
    /\ fpc = "done"
    /\ {1, 2} \subseteq ResolvedLinesFor(T_HOME)
    /\ Resolved(2) # Resolved(1)
    /\ home = Resolved(1)

\* The target of an item of lines(), if it is a line that has one.
ItemTarget(item) ==
    LET e == trim(item.line)
    IN  IF ~item.ok \/ starts_with(e, <<"#">>) THEN None
        ELSE field(split_whitespace(e), 2)

\* etc/fstab with only its lines for target k.
OnlyLinesFor(k) ==
    LET for_k(item) == ItemTarget(item) = Some(Targets[k])
    IN  [opens |-> fstab.opens, items |-> SelectSeq(fstab.items, for_k)]

\* What detect_linux returns on a root whose etc/os-release parses and whose
\* etc/fstab is file.
LinuxOn(file) == detect_linux([osrel |-> "release", fstab |-> file, resolver |-> ids])

\* The field of a Linux result that belongs to target k.
LinuxField(os, k) ==
    CASE k = 1 -> os.home
      [] k = 2 -> os.efi
      [] k = 3 -> os.recovery

\* C16 as stated: the field of the Linux result for a target depends only on
\* the fstab lines with that target: what detect_linux reports in it on the
\* lines for that target alone, it reports on the whole file, whatever lines
\* for other targets are added; and the three fields of the result are the
\* parser's home, efi and recovery, each under its own name.
C16_FieldsIndependent ==
    fpc \in {"done", "panicked"} =>
        /\ \A k \in 1..3 :
             is_some(LinuxOn(OnlyLinesFor(k)).val) =>
                 /\ is_some(LinuxOn(fstab).val)
                 /\ LinuxField(LinuxOn(fstab).val[1], k)
                       = LinuxField(LinuxOn(OnlyLinesFor(k)).val[1], k)
        /\ fpc = "done" =>
             LinuxOn(fstab).val = Some(Linux("os_release", home, efi, recovery))

============================================================================
